---- MODULE Spec2Model ----
(***************************************************************************)
(* Nullable scalar wrappers of voidint/null.                               *)
(*   package zero (src/zero/int16.go): zero.Int16 and zero.Uint8, the      *)
(*     "zero-as-null" family;                                              *)
(*   package null (src/uint8.go): null.Uint8, the "strict-null" family.    *)
(* A wrapper is a record [typ, value, valid].  Texts and JSON documents    *)
(* are sequences of one-character strings, so that parsing and formatting  *)
(* are computed digit by digit as strconv does.                            *)
(***************************************************************************)
EXTENDS Integers, Sequences, FiniteSets, TLC

VARIABLES w, pre, op, arg, err, out, res, orig

vars == <<w, pre, op, arg, err, out, res, orig>>

\* Longest text enumerated systematically over Alphabet.
MaxLen == 2

(***************************************************************************)
(* Record shapes.  Every record of the model lists its fields in the order *)
(* given here.                                                             *)
(***************************************************************************)
Types == {"zero.Int16", "zero.Uint8", "null.Uint8"}

\* A wrapper: the embedded sql.NullInt16 or sql.NullByte, tagged by its type.
Wrapper == [typ : Types, value : Int, valid : BOOLEAN]

\* The wrapper a round trip started from.
Origin == [typ : Types \cup {""}, value : Int, valid : BOOLEAN,
           mode : {"none", "enc-dec", "dec-enc"}]

\* What a decoder leaves: the receiver and the returned error.
Decoded == [w : Wrapper, err : STRING]

\* What strconv and encoding/json return.
Parsed == [err : STRING, n : Int]

ParsedJson == [err : STRING, n : Int, set : BOOLEAN, typeErrorValue : STRING]

ParsedString == [err : STRING, str : Seq(STRING)]

\* A *T argument or result: nil, or a pointer to v.
Pointer == [nil : BOOLEAN, v : Int]

\* The argument and the result of the last call.
Argument == [n : Int, nil : BOOLEAN, text : Seq(STRING), flag : BOOLEAN]

Result == [n : Int, nil : BOOLEAN, b : BOOLEAN]

(***************************************************************************)
(* Characters and texts                                                    *)
(***************************************************************************)
Digits == <<"0", "1", "2", "3", "4", "5", "6", "7", "8", "9">>

IsDigit(c) == \E k \in 1..10 : Digits[k] = c

DigitVal(c) == (CHOOSE k \in 1..10 : Digits[k] = c) - 1

Quote == "\""

nullBytes == <<"n", "u", "l", "l">>

Tail2(s) == SubSeq(s, 2, Len(s))

(***************************************************************************)
(* strconv.ParseUint(s, 10, bitSize) and strconv.ParseInt(s, 10, bitSize). *)
(* Results are [err, n] with err one of "", "syntax", "range".  The texts  *)
(* of this model have fewer than ten digits, so a 64-bit parse never       *)
(* reaches its range error; the 8- and 16-bit range checks are exact.      *)
(***************************************************************************)
MaxUintOf(bitSize) == 2 ^ bitSize - 1

OverUint(n, bitSize) == bitSize < 31 /\ n > MaxUintOf(bitSize)

\* scan[k] is the loop's state after k characters: the first error met, or
\* the number read so far.
ParseUint(s, bitSize) ==
    LET scan[k \in 0..Len(s)] ==
            IF k = 0 THEN [err |-> "", n |-> 0]
            ELSE LET prev == scan[k - 1]
                     n1 == prev.n * 10 + DigitVal(s[k])
                 IN  IF prev.err # "" THEN prev
                     ELSE IF ~IsDigit(s[k]) THEN [err |-> "syntax", n |-> 0]
                     ELSE IF OverUint(n1, bitSize)
                          THEN [err |-> "range", n |-> MaxUintOf(bitSize)]
                     ELSE [err |-> "", n |-> n1]
    IN  IF s = <<>> THEN [err |-> "syntax", n |-> 0]
        ELSE scan[Len(s)]

ParseInt(s, bitSize) ==
    IF s = <<>> THEN [err |-> "syntax", n |-> 0]
    ELSE LET neg  == s[1] = "-"
             body == IF s[1] = "+" \/ s[1] = "-" THEN Tail2(s) ELSE s
             u    == ParseUint(body, bitSize)
         IN  IF u.err = "syntax" THEN [err |-> "syntax", n |-> 0]
             ELSE IF bitSize < 31 /\ ~neg /\ u.n >= 2 ^ (bitSize - 1)
                  THEN [err |-> "range", n |-> 2 ^ (bitSize - 1) - 1]
             ELSE IF bitSize < 31 /\ neg /\ u.n > 2 ^ (bitSize - 1)
                  THEN [err |-> "range", n |-> -(2 ^ (bitSize - 1))]
             ELSE [err |-> "", n |-> IF neg THEN -u.n ELSE u.n]

\* The Go conversion int16(n) of an int64: the low 16 bits, two's complement.
ToInt16(n) == ((n + 32768) % 65536) - 32768

\* The Go conversion uint8(n) of a uint64: the low 8 bits.
ToUint8(n) == n % 256

(***************************************************************************)
(* strconv.FormatInt(n, 10)                                                *)
(***************************************************************************)
\* The decimal digits of n >= 0, most significant first (n < 10^9 here).
FormatUint(n) ==
    LET nd == CHOOSE k \in 1..9 : (k = 1 \/ 10 ^ (k - 1) <= n) /\ (k = 9 \/ n < 10 ^ k)
    IN  [k \in 1..nd |-> Digits[((n \div (10 ^ (nd - k))) % 10) + 1]]

FormatInt(n) == IF n < 0 THEN <<"-">> \o FormatUint(-n) ELSE FormatUint(n)

(***************************************************************************)
(* encoding/json on one scalar document.  JsonKind classifies the document *)
(* as the decoder's scanner does; documents of this model hold no escape   *)
(* sequences, and the only objects and arrays are the empty ones.          *)
(***************************************************************************)
IsDigitSeq(s) == s # <<>> /\ \A k \in 1..Len(s) : IsDigit(s[k])

\* -? (0 | [1-9][0-9]*)
IsJsonInt(s) ==
    LET body == IF s # <<>> /\ s[1] = "-" THEN Tail2(s) ELSE s
    IN  IsDigitSeq(body) /\ (body[1] = "0" => Len(body) = 1)

\* (. [0-9]+)?
IsJsonFrac(s) == s = <<>> \/ (s[1] = "." /\ IsDigitSeq(Tail2(s)))

\* ([eE] [+-]? [0-9]+)?
IsJsonExp(s) ==
    \/ s = <<>>
    \/ /\ s[1] \in {"e", "E"}
       /\ \/ IsDigitSeq(Tail2(s))
          \/ Len(s) >= 2 /\ s[2] \in {"+", "-"} /\ IsDigitSeq(SubSeq(s, 3, Len(s)))

IsJsonNumber(d) ==
    \E a \in 0..Len(d) : \E b \in a..Len(d) :
        /\ IsJsonInt(SubSeq(d, 1, a))
        /\ IsJsonFrac(SubSeq(d, a + 1, b))
        /\ IsJsonExp(SubSeq(d, b + 1, Len(d)))

IsJsonString(d) ==
    /\ Len(d) >= 2
    /\ d[1] = Quote
    /\ d[Len(d)] = Quote
    /\ \A k \in 2..(Len(d) - 1) : d[k] # Quote /\ d[k] # "\\"

JsonKind(d) ==
    IF d = nullBytes THEN "null"
    ELSE IF d = <<"t", "r", "u", "e">> \/ d = <<"f", "a", "l", "s", "e">> THEN "bool"
    ELSE IF d = <<"{", "}">> THEN "object"
    ELSE IF d = <<"[", "]">> THEN "array"
    ELSE IF IsJsonString(d) THEN "string"
    ELSE IF IsJsonNumber(d) THEN "number"
    ELSE "invalid"

\* json.Unmarshal(data, &x) for an integer x of the given signedness and
\* width.  err is "" (x set to n), "syntax" (a *json.SyntaxError) or "type"
\* (a *json.UnmarshalTypeError whose Value starts with typeErrorValue);
\* on an error, and on a null document, x is left as it was (set = FALSE).
JsonUnmarshalInt(data, signed, bitSize) ==
    LET kind == JsonKind(data)
        p == IF signed THEN ParseInt(data, 64) ELSE ParseUint(data, 64)
        fits == IF signed
                THEN -(2 ^ (bitSize - 1)) <= p.n /\ p.n <= 2 ^ (bitSize - 1) - 1
                ELSE p.n <= MaxUintOf(bitSize)
    IN  IF kind = "invalid" THEN [err |-> "syntax", n |-> 0, set |-> FALSE, typeErrorValue |-> ""]
        ELSE IF kind = "null" THEN [err |-> "", n |-> 0, set |-> FALSE, typeErrorValue |-> ""]
        ELSE IF kind = "number"
             THEN IF p.err # "" \/ ~fits
                  THEN [err |-> "type", n |-> 0, set |-> FALSE, typeErrorValue |-> "number"]
                  ELSE [err |-> "", n |-> p.n, set |-> TRUE, typeErrorValue |-> ""]
        ELSE [err |-> "type", n |-> 0, set |-> FALSE, typeErrorValue |-> kind]

\* json.Unmarshal(data, &str) for a string str.
JsonUnmarshalString(data) ==
    LET kind == JsonKind(data)
    IN  IF kind = "invalid" THEN [err |-> "syntax", str |-> <<>>]
        ELSE IF kind = "string"
             THEN [err |-> "", str |-> SubSeq(data, 2, Len(data) - 1)]
        ELSE IF kind = "null" THEN [err |-> "", str |-> <<>>]
        ELSE [err |-> "type", str |-> <<>>]


(***************************************************************************)
(* zero.Int16  (src/zero/int16.go:1-146)                                   *)
(***************************************************************************)
NewInt16(i, valid) == [typ |-> "zero.Int16", value |-> i, valid |-> valid]

Int16From(i) == NewInt16(i, i # 0)

\* ptr is [nil, v]: the nil pointer, or a pointer to v.
Int16FromPtr(ptr) ==
    IF ptr.nil THEN NewInt16(0, FALSE)
    ELSE NewInt16(ptr.v, TRUE)

Int16ValueOrZero(i) == IF ~i.valid THEN 0 ELSE i.value

Int16UnmarshalJSON(i, data) ==
    IF data = nullBytes THEN [w |-> [i EXCEPT !.valid = FALSE], err |-> ""]
    ELSE
    LET r == JsonUnmarshalInt(data, TRUE, 16)
        s == JsonUnmarshalString(data)
        p == ParseInt(s.str, 16)
        \* what json.Unmarshal(data, &i.Int16) left in the field
        d == IF r.set THEN [i EXCEPT !.value = r.n] ELSE i
    IN  IF r.err # ""
        THEN IF r.err = "type"
             THEN IF r.typeErrorValue # "string" THEN [w |-> d, err |-> "invalid type"]
                  ELSE IF s.err # "" THEN [w |-> d, err |-> "number string"]
                  ELSE IF p.err # "" THEN [w |-> d, err |-> "string to int"]
                  ELSE [w |-> [d EXCEPT !.value = ToInt16(p.n), !.valid = p.n # 0],
                        err |-> ""]
             ELSE [w |-> d, err |-> "unmarshal JSON"]
        ELSE [w |-> [d EXCEPT !.valid = d.value # 0], err |-> ""]

\* Variant: the text is parsed at 16 bits, with strconv's range check.
Int16UnmarshalText_Checked(i, text) ==
    IF text = <<>> \/ text = nullBytes
    THEN [w |-> [i EXCEPT !.valid = FALSE], err |-> ""]
    ELSE LET p == ParseInt(text, 16)
         IN  IF p.err # "" THEN [w |-> i, err |-> "unmarshal text"]
             ELSE [w |-> [i EXCEPT !.value = p.n, !.valid = p.n # 0], err |-> ""]

Int16UnmarshalText(i, text) ==
    IF text = <<>> \/ text = nullBytes
    THEN [w |-> [i EXCEPT !.valid = FALSE], err |-> ""]
    ELSE LET p == ParseInt(text, 64)
         IN  IF p.err # "" THEN [w |-> i, err |-> "unmarshal text"]
             ELSE [w |-> [i EXCEPT !.value = ToInt16(p.n), !.valid = ToInt16(p.n) # 0],
                   err |-> ""]

Int16MarshalJSON(i) == FormatInt(IF ~i.valid THEN 0 ELSE i.value)

\* Variant: the value is formatted as an unsigned number, the sign lost.
Int16MarshalText_Unsigned(i) ==
    LET n == IF ~i.valid THEN 0 ELSE i.value
    IN  FormatUint(IF n < 0 THEN -n ELSE n)

Int16MarshalText(i) == FormatInt(IF ~i.valid THEN 0 ELSE i.value)

Int16SetValid(i, n) == [i EXCEPT !.value = n, !.valid = TRUE]

\* The result is [nil, v]: nil, or a pointer to v.
Int16Ptr(i) == IF ~i.valid THEN [nil |-> TRUE, v |-> 0] ELSE [nil |-> FALSE, v |-> i.value]

\* Variant: the null package's IsZero, copied into package zero.
Int16IsZero_ValidOnly(i) == ~i.valid

Int16IsZero(i) == ~i.valid \/ i.value = 0

Int16Equal(i, other) == Int16ValueOrZero(i) = Int16ValueOrZero(other)

(***************************************************************************)
(* zero.Uint8  (src/zero/int16.go:148-293)                                 *)
(***************************************************************************)
ZeroUint8New(i, valid) == [typ |-> "zero.Uint8", value |-> i, valid |-> valid]

ZeroUint8From(i) == ZeroUint8New(i, i # 0)

\* ptr is [nil, v]: the nil pointer, or a pointer to v.
ZeroUint8FromPtr(ptr) ==
    IF ptr.nil THEN ZeroUint8New(0, FALSE)
    ELSE ZeroUint8New(ptr.v, TRUE)

ZeroUint8ValueOrZero(i) == IF ~i.valid THEN 0 ELSE i.value

\* Variant: the string branch sets Valid as package null does.
ZeroUint8UnmarshalJSON_StringAlwaysValid(i, data) ==
    IF data = nullBytes THEN [w |-> [i EXCEPT !.valid = FALSE], err |-> ""]
    ELSE
    LET r == JsonUnmarshalInt(data, FALSE, 8)
        s == JsonUnmarshalString(data)
        p == ParseUint(s.str, 8)
    IN  IF r.err # ""
        THEN IF r.err = "type"
             THEN IF r.typeErrorValue # "string" THEN [w |-> i, err |-> "invalid type"]
                  ELSE IF s.err # "" THEN [w |-> i, err |-> "number string"]
                  ELSE IF p.err # "" THEN [w |-> i, err |-> "string to int"]
                  ELSE [w |-> [i EXCEPT !.value = ToUint8(p.n), !.valid = TRUE],
                        err |-> ""]
             ELSE [w |-> i, err |-> "unmarshal JSON"]
        ELSE [w |-> [i EXCEPT !.value = r.n, !.valid = r.n # 0], err |-> ""]

ZeroUint8UnmarshalJSON(i, data) ==
    IF data = nullBytes THEN [w |-> [i EXCEPT !.valid = FALSE], err |-> ""]
    ELSE
    LET r == JsonUnmarshalInt(data, FALSE, 8)
        s == JsonUnmarshalString(data)
        p == ParseUint(s.str, 8)
        \* what json.Unmarshal(data, &i.Byte) left in the field
        d == IF r.set THEN [i EXCEPT !.value = r.n] ELSE i
    IN  IF r.err # ""
        THEN IF r.err = "type"
             THEN IF r.typeErrorValue # "string" THEN [w |-> d, err |-> "invalid type"]
                  ELSE IF s.err # "" THEN [w |-> d, err |-> "number string"]
                  ELSE IF p.err # "" THEN [w |-> d, err |-> "string to int"]
                  ELSE [w |-> [d EXCEPT !.value = ToUint8(p.n), !.valid = p.n # 0],
                        err |-> ""]
             ELSE [w |-> d, err |-> "unmarshal JSON"]
        ELSE [w |-> [d EXCEPT !.valid = d.value # 0], err |-> ""]

ZeroUint8UnmarshalText(i, text) ==
    IF text = <<>> \/ text = nullBytes
    THEN [w |-> [i EXCEPT !.valid = FALSE], err |-> ""]
    ELSE LET p == ParseUint(text, 8)
         IN  IF p.err # "" THEN [w |-> i, err |-> "unmarshal text"]
             ELSE [w |-> [i EXCEPT !.value = ToUint8(p.n), !.valid = ToUint8(p.n) # 0],
                   err |-> ""]

ZeroUint8MarshalJSON(i) == FormatInt(IF ~i.valid THEN 0 ELSE i.value)

\* Variant: the stored value is formatted without looking at Valid.
ZeroUint8MarshalText_IgnoresValid(i) == FormatInt(i.value)

ZeroUint8MarshalText(i) == FormatInt(IF ~i.valid THEN 0 ELSE i.value)

ZeroUint8SetValid(i, n) == [i EXCEPT !.value = n, !.valid = TRUE]

\* The result is [nil, v]: nil, or a pointer to v.
ZeroUint8Ptr(i) == IF ~i.valid THEN [nil |-> TRUE, v |-> 0] ELSE [nil |-> FALSE, v |-> i.value]

ZeroUint8IsZero(i) == ~i.valid \/ i.value = 0

ZeroUint8Equal(i, other) == ZeroUint8ValueOrZero(i) = ZeroUint8ValueOrZero(other)

(***************************************************************************)
(* null.Uint8  (src/uint8.go)                                              *)
(***************************************************************************)
NullUint8New(i, valid) == [typ |-> "null.Uint8", value |-> i, valid |-> valid]

NullUint8From(i) == NullUint8New(i, TRUE)

\* ptr is [nil, v]: the nil pointer, or a pointer to v.
NullUint8FromPtr(ptr) ==
    IF ptr.nil THEN NullUint8New(0, FALSE)
    ELSE NullUint8New(ptr.v, TRUE)

NullUint8ValueOrZero(i) == IF ~i.valid THEN 0 ELSE i.value

NullUint8UnmarshalJSON(i, data) ==
    IF data = nullBytes THEN [w |-> [i EXCEPT !.valid = FALSE], err |-> ""]
    ELSE
    LET r == JsonUnmarshalInt(data, FALSE, 8)
        s == JsonUnmarshalString(data)
        p == ParseUint(s.str, 8)
        \* what json.Unmarshal(data, &i.Byte) left in the field
        d == IF r.set THEN [i EXCEPT !.value = r.n] ELSE i
    IN  IF r.err # ""
        THEN IF r.err = "type"
             THEN IF r.typeErrorValue # "string" THEN [w |-> d, err |-> "invalid type"]
                  ELSE IF s.err # "" THEN [w |-> d, err |-> "number string"]
                  ELSE IF p.err # "" THEN [w |-> d, err |-> "string to int"]
                  ELSE [w |-> [d EXCEPT !.value = ToUint8(p.n), !.valid = TRUE],
                        err |-> ""]
             ELSE [w |-> d, err |-> "unmarshal JSON"]
        ELSE [w |-> [d EXCEPT !.valid = TRUE], err |-> ""]

\* Variant: a text that does not parse is taken for null before the error
\* is returned.
NullUint8UnmarshalText_ErrorClearsValid(i, text) ==
    IF text = <<>> \/ text = nullBytes
    THEN [w |-> [i EXCEPT !.valid = FALSE], err |-> ""]
    ELSE LET p == ParseUint(text, 8)
         IN  IF p.err # "" THEN [w |-> [i EXCEPT !.valid = FALSE], err |-> "unmarshal text"]
             ELSE [w |-> [i EXCEPT !.value = ToUint8(p.n), !.valid = TRUE], err |-> ""]

NullUint8UnmarshalText(i, text) ==
    IF text = <<>> \/ text = nullBytes
    THEN [w |-> [i EXCEPT !.valid = FALSE], err |-> ""]
    ELSE LET p == ParseUint(text, 8)
         IN  IF p.err # "" THEN [w |-> i, err |-> "unmarshal text"]
             ELSE [w |-> [i EXCEPT !.value = ToUint8(p.n), !.valid = TRUE],
                   err |-> ""]

\* Variant: the zero package's MarshalJSON, copied into package null.
NullUint8MarshalJSON_ZeroForNull(i) == FormatInt(IF ~i.valid THEN 0 ELSE i.value)

NullUint8MarshalJSON(i) == IF ~i.valid THEN nullBytes ELSE FormatInt(i.value)

NullUint8MarshalText(i) == IF ~i.valid THEN <<>> ELSE FormatInt(i.value)

NullUint8SetValid(i, n) == [i EXCEPT !.value = n, !.valid = TRUE]

\* The result is [nil, v]: nil, or a pointer to v.
NullUint8Ptr(i) == IF ~i.valid THEN [nil |-> TRUE, v |-> 0] ELSE [nil |-> FALSE, v |-> i.value]

NullUint8IsZero(i) == ~i.valid

\* Variant: the zero package's Equal, copied into package null.
NullUint8Equal_ByValueOrZero(i, other) ==
    NullUint8ValueOrZero(i) = NullUint8ValueOrZero(other)

NullUint8Equal(i, other) == i.valid = other.valid /\ (~i.valid \/ i.value = other.value)

(***************************************************************************)
(* Inputs of the model                                                     *)
(***************************************************************************)
ZeroFamily == {"zero.Int16", "zero.Uint8"}

Int16Values == {-32768, -1, 0, 1, 42, 32767}

Uint8Values == {0, 1, 42, 255}

ValuesOf(t) == IF t = "zero.Int16" THEN Int16Values ELSE Uint8Values

Alphabet == {"0", "7", "-"}

SeqsUpTo(n) == UNION {[1..k -> Alphabet] : k \in 0..n}

FixedTexts ==
    { nullBytes,
      <<"4", "2">>, <<"+", "7">>, <<"x">>, <<"1", ".", "5">>,
      <<"2", "5", "5">>, <<"2", "5", "6">>, <<"3", "0", "0">>,
      <<"3", "2", "7", "6", "7">>, <<"3", "2", "7", "6", "8">>,
      <<"-", "3", "2", "7", "6", "8">>, <<"-", "3", "2", "7", "6", "9">>,
      <<"6", "5", "5", "3", "6">>, <<"6", "5", "5", "7", "8">> }

\* Flat-text inputs.
Texts == SeqsUpTo(MaxLen) \cup FixedTexts

Quoted(t) == <<Quote>> \o t \o <<Quote>>

\* Structured-text inputs: every text bare and quoted, and other shapes.
JsonDocs ==
    Texts \cup {Quoted(t) : t \in Texts}
          \cup {<<"t", "r", "u", "e">>, <<"{", "}">>, <<"[", "]">>}

Pointers(t) == {[nil |-> TRUE, v |-> 0]} \cup {[nil |-> FALSE, v |-> v] : v \in ValuesOf(t)}

(***************************************************************************)
(* Go's static dispatch on the wrapper's type                              *)
(***************************************************************************)
New(t, v, valid) ==
    CASE t = "zero.Int16" -> NewInt16(v, valid)
      [] t = "zero.Uint8" -> ZeroUint8New(v, valid)
      [] t = "null.Uint8" -> NullUint8New(v, valid)

From(t, v) ==
    CASE t = "zero.Int16" -> Int16From(v)
      [] t = "zero.Uint8" -> ZeroUint8From(v)
      [] t = "null.Uint8" -> NullUint8From(v)

FromPtr(t, ptr) ==
    CASE t = "zero.Int16" -> Int16FromPtr(ptr)
      [] t = "zero.Uint8" -> ZeroUint8FromPtr(ptr)
      [] t = "null.Uint8" -> NullUint8FromPtr(ptr)

ValueOrZero(i) ==
    CASE i.typ = "zero.Int16" -> Int16ValueOrZero(i)
      [] i.typ = "zero.Uint8" -> ZeroUint8ValueOrZero(i)
      [] i.typ = "null.Uint8" -> NullUint8ValueOrZero(i)

UnmarshalJSON(i, data) ==
    CASE i.typ = "zero.Int16" -> Int16UnmarshalJSON(i, data)
      [] i.typ = "zero.Uint8" -> ZeroUint8UnmarshalJSON(i, data)
      [] i.typ = "null.Uint8" -> NullUint8UnmarshalJSON(i, data)

UnmarshalText(i, text) ==
    CASE i.typ = "zero.Int16" -> Int16UnmarshalText(i, text)
      [] i.typ = "zero.Uint8" -> ZeroUint8UnmarshalText(i, text)
      [] i.typ = "null.Uint8" -> NullUint8UnmarshalText(i, text)

MarshalJSON(i) ==
    CASE i.typ = "zero.Int16" -> Int16MarshalJSON(i)
      [] i.typ = "zero.Uint8" -> ZeroUint8MarshalJSON(i)
      [] i.typ = "null.Uint8" -> NullUint8MarshalJSON(i)

MarshalText(i) ==
    CASE i.typ = "zero.Int16" -> Int16MarshalText(i)
      [] i.typ = "zero.Uint8" -> ZeroUint8MarshalText(i)
      [] i.typ = "null.Uint8" -> NullUint8MarshalText(i)

SetValid(i, n) ==
    CASE i.typ = "zero.Int16" -> Int16SetValid(i, n)
      [] i.typ = "zero.Uint8" -> ZeroUint8SetValid(i, n)
      [] i.typ = "null.Uint8" -> NullUint8SetValid(i, n)

Ptr(i) ==
    CASE i.typ = "zero.Int16" -> Int16Ptr(i)
      [] i.typ = "zero.Uint8" -> ZeroUint8Ptr(i)
      [] i.typ = "null.Uint8" -> NullUint8Ptr(i)

IsZero(i) ==
    CASE i.typ = "zero.Int16" -> Int16IsZero(i)
      [] i.typ = "zero.Uint8" -> ZeroUint8IsZero(i)
      [] i.typ = "null.Uint8" -> NullUint8IsZero(i)

Equal(i, other) ==
    CASE i.typ = "zero.Int16" -> Int16Equal(i, other)
      [] i.typ = "zero.Uint8" -> ZeroUint8Equal(i, other)
      [] i.typ = "null.Uint8" -> NullUint8Equal(i, other)

(***************************************************************************)
(* State.  w is the wrapper at hand; the other variables record the last   *)
(* call: pre the receiver before it, op its name, arg its argument, err    *)
(* the error it returned ("" for nil), out the bytes an encoder returned,  *)
(* res the result of a query.  orig is used by the round-trip pipelines.   *)
(***************************************************************************)
NoArg == [n |-> 0, nil |-> FALSE, text |-> <<>>, flag |-> FALSE]

NoRes == [n |-> 0, nil |-> FALSE, b |-> FALSE]

NoOrig == [typ |-> "", value |-> 0, valid |-> FALSE, mode |-> "none"]

\* A declared, unassigned wrapper variable: Go's zero value of the struct.
Init ==
    /\ w \in {New(t, 0, FALSE) : t \in Types}
    /\ pre = w
    /\ op = "var"
    /\ arg = NoArg
    /\ err = ""
    /\ out = <<>>
    /\ res = NoRes
    /\ orig = NoOrig

Construct(name, nw, a) ==
    /\ w' = nw
    /\ pre' = w
    /\ op' = name
    /\ arg' = a
    /\ err' = ""
    /\ out' = <<>>
    /\ res' = NoRes
    /\ UNCHANGED orig

DoNew ==
    \E t \in Types : \E v \in ValuesOf(t) : \E valid \in BOOLEAN :
        Construct("New", New(t, v, valid), [NoArg EXCEPT !.n = v, !.flag = valid])

DoFrom ==
    \E t \in Types : \E v \in ValuesOf(t) :
        Construct("From", From(t, v), [NoArg EXCEPT !.n = v])

DoFromPtr ==
    \E t \in Types : \E ptr \in Pointers(t) :
        Construct("FromPtr", FromPtr(t, ptr), [NoArg EXCEPT !.n = ptr.v, !.nil = ptr.nil])

DoSetValid ==
    \E n \in ValuesOf(w.typ) :
        Construct("SetValid", SetValid(w, n), [NoArg EXCEPT !.n = n])

Decode(name, r, text) ==
    /\ w' = r.w
    /\ pre' = w
    /\ op' = name
    /\ arg' = [NoArg EXCEPT !.text = text]
    /\ err' = r.err
    /\ out' = <<>>
    /\ res' = NoRes
    /\ UNCHANGED orig

DoUnmarshalJSON ==
    \E data \in JsonDocs : Decode("UnmarshalJSON", UnmarshalJSON(w, data), data)

DoUnmarshalText ==
    \E text \in Texts : Decode("UnmarshalText", UnmarshalText(w, text), text)

Query(name, a, bytes, r) ==
    /\ w' = w
    /\ pre' = w
    /\ op' = name
    /\ arg' = a
    /\ err' = ""
    /\ out' = bytes
    /\ res' = r
    /\ UNCHANGED orig

DoMarshalJSON == Query("MarshalJSON", NoArg, MarshalJSON(w), NoRes)

DoMarshalText == Query("MarshalText", NoArg, MarshalText(w), NoRes)

DoValueOrZero ==
    Query("ValueOrZero", NoArg, <<>>, [NoRes EXCEPT !.n = ValueOrZero(w)])

DoPtr ==
    Query("Ptr", NoArg, <<>>, [NoRes EXCEPT !.n = Ptr(w).v, !.nil = Ptr(w).nil])

DoIsZero == Query("IsZero", NoArg, <<>>, [NoRes EXCEPT !.b = IsZero(w)])

\* other is New(w.typ, arg.n, arg.flag).
DoEqual ==
    \E v \in ValuesOf(w.typ) : \E valid \in BOOLEAN :
        Query("Equal", [NoArg EXCEPT !.n = v, !.flag = valid], <<>>,
              [NoRes EXCEPT !.b = Equal(w, New(w.typ, v, valid))])

Next ==
    \/ DoSetValid
    \/ DoNew
    \/ DoFrom
    \/ DoFromPtr
    \/ DoUnmarshalJSON
    \/ DoUnmarshalText
    \/ DoMarshalJSON
    \/ DoMarshalText
    \/ DoValueOrZero
    \/ DoPtr
    \/ DoIsZero
    \/ DoEqual

Spec == Init /\ [][Next]_vars

\* Every behaviour built from constructors, decoders, encoders and queries
\* alone: SetValid is never called.
NextNoSetValid ==
    \/ DoFromPtr
    \/ DoFrom
    \/ DoNew
    \/ DoUnmarshalJSON
    \/ DoUnmarshalText
    \/ DoMarshalJSON
    \/ DoMarshalText
    \/ DoValueOrZero
    \/ DoPtr
    \/ DoIsZero
    \/ DoEqual

SpecNoSetValid == Init /\ [][NextNoSetValid]_vars

(***************************************************************************)
(* Round trips.  orig.mode = "enc-dec": the wrapper orig is encoded and    *)
(* the bytes are decoded into any wrapper of its type.  "dec-enc": the     *)
(* input arg.text is decoded into the wrapper orig and, if that returned   *)
(* no error, the result is encoded in the same encoding.                   *)
(***************************************************************************)
WrappersOf(t) == {New(t, v, valid) : v \in ValuesOf(t), valid \in BOOLEAN}

AllWrappers == UNION {WrappersOf(t) : t \in Types}

OrigOf(mode, x) == [typ |-> x.typ, value |-> x.value, valid |-> x.valid, mode |-> mode]

InitRT ==
    /\ w \in AllWrappers
    /\ pre = w
    /\ \E mode \in {"enc-dec", "dec-enc"} :
        /\ orig = OrigOf(mode, w)
        /\ op = IF mode = "enc-dec" THEN "New" ELSE "input"
        /\ IF mode = "enc-dec" THEN arg = NoArg
           ELSE arg \in {[NoArg EXCEPT !.text = x] : x \in JsonDocs}
    /\ err = ""
    /\ out = <<>>
    /\ res = NoRes

RTMarshal(name, bytes) ==
    /\ orig.mode = "enc-dec"
    /\ op = "New"
    /\ op' = name
    /\ out' = bytes
    /\ UNCHANGED <<w, pre, arg, err, res, orig>>

RTMarshalJSON == RTMarshal("MarshalJSON", MarshalJSON(w))

RTMarshalText == RTMarshal("MarshalText", MarshalText(w))

RTUnmarshal(from, name, t, r) ==
    /\ orig.mode = "enc-dec"
    /\ op = from
    /\ op' = name
    /\ w' = r.w
    /\ pre' = t
    /\ err' = r.err
    /\ arg' = [NoArg EXCEPT !.text = out]
    /\ UNCHANGED <<out, res, orig>>

RTUnmarshalJSON ==
    \E t \in WrappersOf(w.typ) :
        RTUnmarshal("MarshalJSON", "UnmarshalJSON", t, UnmarshalJSON(t, out))

RTUnmarshalText ==
    \E t \in WrappersOf(w.typ) :
        RTUnmarshal("MarshalText", "UnmarshalText", t, UnmarshalText(t, out))

RTDecode(name, r) ==
    /\ orig.mode = "dec-enc"
    /\ op = "input"
    /\ op' = name
    /\ w' = r.w
    /\ pre' = w
    /\ err' = r.err
    /\ UNCHANGED <<arg, out, res, orig>>

RTDecodeJSON == RTDecode("UnmarshalJSON", UnmarshalJSON(w, arg.text))

RTDecodeText ==
    /\ arg.text \in Texts
    /\ RTDecode("UnmarshalText", UnmarshalText(w, arg.text))

RTEncode(from, name, bytes) ==
    /\ orig.mode = "dec-enc"
    /\ op = from
    /\ err = ""
    /\ op' = name
    /\ out' = bytes
    /\ UNCHANGED <<w, pre, arg, err, res, orig>>

RTEncodeJSON == RTEncode("UnmarshalJSON", "MarshalJSON", MarshalJSON(w))

RTEncodeText == RTEncode("UnmarshalText", "MarshalText", MarshalText(w))

NextRT ==
    \/ RTMarshalJSON
    \/ RTMarshalText
    \/ RTUnmarshalJSON
    \/ RTUnmarshalText
    \/ RTDecodeJSON
    \/ RTDecodeText
    \/ RTEncodeJSON
    \/ RTEncodeText

SpecRT == InitRT /\ [][NextRT]_vars

(***************************************************************************)
(* Vocabulary of the properties.  These read a text as the specification   *)
(* does, without the decoders' range checks.                               *)
(***************************************************************************)
Decoders == {"UnmarshalJSON", "UnmarshalText"}

Encoders == {"MarshalJSON", "MarshalText"}

\* [+-]? [0-9]+ for a signed kind, [0-9]+ for an unsigned one.
IsDecimal(t, signed) ==
    IF signed /\ t # <<>> /\ t[1] \in {"+", "-"} THEN IsDigitSeq(Tail2(t))
    ELSE IsDigitSeq(t)

\* The number a decimal text denotes.
DecimalValue(t) ==
    LET neg == t[1] = "-"
        ds == IF t[1] \in {"+", "-"} THEN Tail2(t) ELSE t
        sum[k \in 0..Len(ds)] ==
            IF k = 0 THEN 0 ELSE sum[k - 1] * 10 + DigitVal(ds[k])
    IN  IF neg THEN -sum[Len(ds)] ELSE sum[Len(ds)]

IsSignedKind(t) == t = "zero.Int16"

MinOf(t) == IF t = "zero.Int16" THEN -32768 ELSE 0

MaxOf(t) == IF t = "zero.Int16" THEN 32767 ELSE 255

IsQuoted(d) == Len(d) >= 2 /\ d[1] = Quote /\ d[Len(d)] = Quote

Unquoted(d) == SubSeq(d, 2, Len(d) - 1)

\* The canonical base-10 rendering of a nonzero number: -? [1-9] [0-9]*
IsCanonicalNonzero(t) ==
    LET ds == IF t # <<>> /\ t[1] = "-" THEN Tail2(t) ELSE t
    IN  IsDigitSeq(ds) /\ ds[1] # "0"

\* The argument of the last Equal call.
OtherOf(x, a) == [typ |-> x.typ, value |-> a.n, valid |-> a.flag]

ValueOrZeroOf(x) == IF x.valid THEN x.value ELSE 0

\* C1: in the zero-as-null wrappers, value == 0 implies valid == false in
\* every state reached by constructors and decoders without SetValid
\* (stated under SpecNoSetValid).
C1_ZeroImpliesInvalid ==
    (w.typ \in ZeroFamily /\ w.value = 0) => ~w.valid

\* C2 as stated: the strict-null Equal compares ValueOrZero, the
\* zero-as-null Equal compares the valid flags and then the values.
C2_EqualAsStated ==
    op = "Equal" =>
        LET o == OtherOf(w, arg)
        IN  IF w.typ \notin ZeroFamily
            THEN res.b = (ValueOrZeroOf(w) = ValueOrZeroOf(o))
            ELSE res.b = (w.valid = o.valid /\ (~w.valid \/ w.value = o.value))

\* C2 amended: the two definitions are the other way round.  The
\* zero-as-null Equal holds exactly when the ValueOrZero results are equal;
\* the strict-null Equal holds exactly when the valid flags are equal and
\* both are invalid or the values are equal.
C2_EqualPerFamily ==
    op = "Equal" =>
        LET o == OtherOf(w, arg)
        IN  IF w.typ \in ZeroFamily
            THEN res.b = (ValueOrZeroOf(w) = ValueOrZeroOf(o))
            ELSE res.b = (w.valid = o.valid /\ (~w.valid \/ w.value = o.value))

\* null.NewUint8(0, true).Equal(null.NewUint8(0, false)) was evaluated: false.
C2_Witness ==
    /\ op = "Equal"
    /\ w = [typ |-> "null.Uint8", value |-> 0, valid |-> TRUE]
    /\ arg.n = 0
    /\ ~arg.flag
    /\ ~res.b

\* C3 as stated: the zero-as-null IsZero equals !valid.
C3_IsZeroAsStated ==
    (op = "IsZero" /\ w.typ \in ZeroFamily) => res.b = ~w.valid

\* C3 amended: the zero-as-null IsZero equals !valid || value == 0 in every
\* state, and after SetValid(w, 0) the wrapper has value 0, valid true and
\* IsZero true.
C3_IsZeroRechecksValue ==
    /\ (op = "IsZero" /\ w.typ \in ZeroFamily) => res.b = (~w.valid \/ w.value = 0)
    /\ (op = "SetValid" /\ arg.n = 0) => (w.value = 0 /\ w.valid)
    /\ (op = "IsZero" /\ w.typ \in ZeroFamily /\ w.valid /\ w.value = 0) => res.b

\* IsZero was called on a zero-as-null wrapper holding a valid 0.
C3_Witness ==
    /\ op = "IsZero"
    /\ w.typ \in ZeroFamily
    /\ w.valid
    /\ w.value = 0
    /\ res.b

\* C4: FromPtr(nil) is New(0, false), and FromPtr of a pointer to v is
\* From(v) of the same family, in value and in valid.
C4_FromPtrFollowsFrom ==
    op = "FromPtr" =>
        IF arg.nil THEN w = [typ |-> w.typ, value |-> 0, valid |-> FALSE]
        ELSE /\ w.value = arg.n
             /\ w.valid = (IF w.typ \in ZeroFamily THEN arg.n # 0 ELSE TRUE)

\* C5: a structured-text decode of a number or a quoted number that returns
\* no error sets valid by the family's policy; a quoted text decodes as the
\* same text unquoted does where that is a numeric literal; "42" and "0"
\* quoted give (42, true) and (0, false) in zero.Uint8; a quoted text that is
\* no decimal or is out of the kind's range returns an error.
C5_StructuredDecode ==
    op = "UnmarshalJSON" =>
        /\ (err = "" /\ arg.text # nullBytes)
              => w.valid = (IF w.typ \in ZeroFamily THEN w.value # 0 ELSE TRUE)
        /\ (IsQuoted(arg.text) /\ JsonKind(Unquoted(arg.text)) = "number")
              => LET lit == UnmarshalJSON(pre, Unquoted(arg.text))
                 IN  w = lit.w /\ (err = "") = (lit.err = "")
        /\ (w.typ = "zero.Uint8" /\ arg.text = Quoted(<<"4", "2">>))
              => (err = "" /\ w.value = 42 /\ w.valid)
        /\ (w.typ = "zero.Uint8" /\ arg.text = Quoted(<<"0">>))
              => (err = "" /\ w.value = 0 /\ ~w.valid)
        /\ (IsQuoted(arg.text) /\ ~IsDecimal(Unquoted(arg.text), IsSignedKind(w.typ)))
              => err # ""
        /\ ( /\ IsQuoted(arg.text)
             /\ IsDecimal(Unquoted(arg.text), IsSignedKind(w.typ))
             /\ DecimalValue(Unquoted(arg.text)) \notin MinOf(w.typ)..MaxOf(w.typ) )
              => err # ""

\* The quoted string "42" was decoded into a zero.Uint8 that held something else.
C5_Witness ==
    /\ op = "UnmarshalJSON"
    /\ w.typ = "zero.Uint8"
    /\ arg.text = Quoted(<<"4", "2">>)
    /\ pre.value # 42
    /\ w.value = 42
    /\ w.valid

\* C6: a flat-text decimal outside 0..255 is an error for the uint8
\* wrappers; every flat-text decimal decodes into the int16 wrapper without
\* an error, the value is the decimal's low 16 bits (two's complement) and
\* valid is computed from that value; "65536" gives value 0, valid false.
C6_FlatTextNarrowing ==
    op = "UnmarshalText" =>
        /\ ( /\ w.typ \in {"zero.Uint8", "null.Uint8"}
             /\ IsDecimal(arg.text, TRUE)
             /\ DecimalValue(arg.text) \notin 0..255 ) => err # ""
        /\ (w.typ = "zero.Int16" /\ IsDecimal(arg.text, TRUE))
              => /\ err = ""
                 /\ w.value \in -32768..32767
                 /\ (w.value - DecimalValue(arg.text)) % 65536 = 0
                 /\ w.valid = (w.value # 0)
        /\ (w.typ = "zero.Int16" /\ arg.text = <<"6", "5", "5", "3", "6">>)
              => (err = "" /\ w.value = 0 /\ ~w.valid)

\* "65536" was decoded into a valid, nonzero zero.Int16.
C6_Witness ==
    /\ op = "UnmarshalText"
    /\ w.typ = "zero.Int16"
    /\ arg.text = <<"6", "5", "5", "3", "6">>
    /\ pre.valid
    /\ pre.value # 0
    /\ w.value = 0
    /\ ~w.valid

\* C7: the structured-text encoding of New(v, false), decoded into any
\* wrapper of the same type, gives valid == false (stated under SpecRT).
C7_InvalidRoundTrip ==
    (orig.mode = "enc-dec" /\ op = "UnmarshalJSON" /\ ~orig.valid)
        => (err = "" /\ ~w.valid)

\* An invalid wrapper with a stored value was encoded, and the bytes were
\* decoded into a wrapper that was valid and nonzero.
C7_Witness ==
    /\ orig.mode = "enc-dec"
    /\ op = "UnmarshalJSON"
    /\ ~orig.valid
    /\ orig.value # 0
    /\ pre.valid
    /\ pre.value # 0
    /\ ~w.valid

\* Whether the input denotes null or zero, and what the family renders it as.
DenotesNull(x, name) == x = nullBytes \/ (name = "MarshalText" /\ x = <<>>)

DenotesZero(x) ==
    LET t == IF IsQuoted(x) THEN Unquoted(x) ELSE x
    IN  IsDecimal(t, TRUE) /\ DecimalValue(t) = 0

NullRendering(typ, name) ==
    IF typ \in ZeroFamily THEN <<"0">>
    ELSE IF name = "MarshalJSON" THEN nullBytes ELSE <<>>

\* C8 as stated: every input that decodes without an error is encoded back
\* to itself, unless it denotes null or zero and comes back as the family's
\* null or zero rendering (stated under SpecRT).
C8_RoundTripAsStated ==
    (orig.mode = "dec-enc" /\ op \in Encoders) =>
        \/ out = arg.text
        \/ (DenotesNull(arg.text, op) /\ out = NullRendering(w.typ, op))
        \/ (DenotesZero(arg.text) /\ out = <<"0">>)

\* C8 amended: an input that decodes without an error and is the canonical
\* base-10 rendering of a nonzero number in the kind's range (no quotes, no
\* "+", no leading zeros) is encoded back to itself; an input denoting null
\* comes back as the family's null rendering, one denoting zero as "0".
C8_RoundTripCanonical ==
    (orig.mode = "dec-enc" /\ op \in Encoders) =>
        /\ ( /\ IsCanonicalNonzero(arg.text)
             /\ DecimalValue(arg.text) \in MinOf(w.typ)..MaxOf(w.typ) )
              => out = arg.text
        /\ DenotesNull(arg.text, op) => out = NullRendering(w.typ, op)
        /\ DenotesZero(arg.text) => out = <<"0">>

\* "-32768" went through the flat-text decoder and encoder of zero.Int16.
C8_Witness ==
    /\ orig.mode = "dec-enc"
    /\ op = "MarshalText"
    /\ w.typ = "zero.Int16"
    /\ arg.text = <<"-", "3", "2", "7", "6", "8">>
    /\ out = arg.text

\* C9: what an encoder returns for an invalid wrapper depends on the type
\* and the encoding alone, never on the stored value; for the zero-as-null
\* wrappers it is "0", which is also the encoding of a valid 0.
C9_InvalidValueNeverEncoded ==
    op \in Encoders =>
        /\ ~w.valid => out = NullRendering(w.typ, op)
        /\ (w.typ \in ZeroFamily /\ ~w.valid) => out = <<"0">>
        /\ (w.typ \in ZeroFamily /\ w.valid /\ w.value = 0) => out = <<"0">>

\* An invalid zero-as-null wrapper that stores a nonzero value was encoded.
C9_Witness ==
    /\ op \in Encoders
    /\ w.typ \in ZeroFamily
    /\ ~w.valid
    /\ w.value # 0
    /\ out = <<"0">>

\* C10: a decode that returns an error leaves value and valid as they were;
\* a decode of the null token, of the text "null" or of the empty text sets
\* valid to false and leaves the value as it was.
C10_DecodeFrame ==
    op \in Decoders =>
        /\ err # "" => w = pre
        /\ (arg.text = nullBytes \/ (op = "UnmarshalText" /\ arg.text = <<>>))
              => (err = "" /\ ~w.valid /\ w.value = pre.value /\ w.typ = pre.typ)

\* A number out of range failed to decode into a valid, nonzero wrapper.
C10_Witness ==
    /\ op = "UnmarshalJSON"
    /\ arg.text = <<"3", "0", "0">>
    /\ err # ""
    /\ pre.valid
    /\ pre.value = 42
    /\ w = pre

====
